---- MODULE Spec2Model ----
(***************************************************************************)
(* Model of SafeBrowsingList (src/safebrowsinglist.go): the per-list state *)
(* and SafeBrowsingList.load, the merge of the persisted chunk log with a  *)
(* freshly fetched delta, together with updateLookupMap, and               *)
(* loadDataFromRedirectLists, which fetches the delta and calls load.      *)
(*                                                                         *)
(* A *HatTrie is modelled by the set of keys it holds.  load only ever     *)
(* mutates the tries it has just allocated with NewTrie() (lines 173-179)  *)
(* and publishes them by pointer assignment (lines 281-284), so the value  *)
(* of a pointer variable is the key set of the trie it points to; a nil    *)
(* trie pointer (tmpLookup & co. before the first load) is the empty set,  *)
(* it is never dereferenced.                                               *)
(*                                                                         *)
(* The file system holds two paths: FileName (logFile) and FileName.tmp    *)
(* (tmpFile).  A gob stream is the sequence of the chunks encoded into it. *)
(* The calls whose error load looks at may fail: os.Open, os.Create,       *)
(* dec.Decode, enc.Encode, os.Remove(FileName) and os.Rename.  The calls   *)
(* whose result load ignores (the Close calls and the deferred os.Remove   *)
(* of FileName.tmp) are taken to succeed.                                  *)
(***************************************************************************)
EXTENDS Integers, Sequences, FiniteSets, TLC

(***************************************************************************)
(* Bounds of the model.                                                    *)
(***************************************************************************)
\* Existing log records plus delta records handled by one load.
MaxLog == 2
\* Pending deletion instructions registered at any time.
MaxDeletes == 1
\* Goroutines that call load on the list.
NumCallers == 2
\* Failures of file-system and gob calls in one run.
MaxFaults == 1
\* Pending redirect URLs of the list.
MaxRedirects == 2

Procs == 1..NumCallers

(***************************************************************************)
(* Chunk records.                                                          *)
(***************************************************************************)
CHUNK_TYPE_ADD == "ADD"
CHUNK_TYPE_SUB == "SUB"
\* A ChunkData_ChunkType value that is neither ADD nor SUB.
CHUNK_TYPE_OTHER == "TX"
PREFIX_4B == "4B"
PREFIX_32B == "32B"
\* A ChunkData_PrefixType value that is neither 4B nor 32B.
PREFIX_OTHER == "PX"

PREFIX_4B_SZ == 4
PREFIX_32B_SZ == 32

\* n bytes of value b.
Bytes(b, n) == [j \in 1..n |-> b]

Chunk(t, w, n, h) ==
    [chunkType |-> t, prefixType |-> w, chunkNumber |-> n, hashes |-> h]

\* The chunk records that logs and deltas are made of.
ChunkPool ==
    { Chunk(CHUNK_TYPE_ADD, PREFIX_4B, 1, Bytes(1, PREFIX_4B_SZ) \o Bytes(2, PREFIX_4B_SZ)),
      Chunk(CHUNK_TYPE_SUB, PREFIX_4B, 1, Bytes(1, PREFIX_4B_SZ)),
      Chunk(CHUNK_TYPE_ADD, PREFIX_32B, 2, Bytes(3, PREFIX_32B_SZ)),
      Chunk(CHUNK_TYPE_SUB, PREFIX_32B, 2, Bytes(3, PREFIX_32B_SZ)),
      Chunk(CHUNK_TYPE_ADD, PREFIX_OTHER, 2, Bytes(4, PREFIX_4B_SZ)),
      Chunk(CHUNK_TYPE_OTHER, PREFIX_4B, 1, Bytes(2, PREFIX_4B_SZ)) }

ChunkNums == { c.chunkNumber : c \in ChunkPool }

NoChunk == Chunk("none", "none", 0, <<>>)

\* The sequences of at most n chunks.
ChunkSeqs(n) == UNION { [1..m -> ChunkPool] : m \in 0..n }

(***************************************************************************)
(* HatTrie: a set of keys.                                                 *)
(***************************************************************************)
NewTrie == {}
TrieSet(t, key) == t \cup {key}
TrieDelete(t, key) == t \ {key}

(***************************************************************************)
(* buildChunkRanges: the comma-joined maximal runs of a set of chunk       *)
(* numbers, ascending, a run of one number as "n", a longer run as "a-b".  *)
(***************************************************************************)
MinOf(S) == CHOOSE x \in S : \A y \in S : x <= y
RunEnd(S, a) == CHOOSE b \in S : b >= a /\ (\A x \in a..b : x \in S) /\ (b + 1) \notin S

RECURSIVE buildChunkRanges(_)
buildChunkRanges(S) ==
    IF S = {} THEN ""
    ELSE LET a == MinOf(S)
             b == RunEnd(S, a)
             run == IF a = b THEN ToString(a) ELSE ToString(a) \o "-" \o ToString(b)
             rest == S \ (a..b)
         IN  IF rest = {} THEN run ELSE run \o "," \o buildChunkRanges(rest)

(***************************************************************************)
(* State.                                                                  *)
(***************************************************************************)
VARIABLES
    \* SafeBrowsingList fields
    DataRedirects,         \* the pending redirect URLs
    DeleteChunks,          \* map chunk type -> set of chunk numbers
    ChunkRanges,           \* map chunk type -> range string
    Lookup, FullHashRequested, FullHashes,
    tmpLookup, tmpFullHashes, tmpFullHashRequested,
    fsLock,                \* TRUE when the mutex is locked
    \* file system
    logFile,               \* the file at FileName
    tmpFile,               \* the file at FileName + ".tmp"
    \* per caller of load
    pc,                    \* position in load
    frame,                 \* the local variables of the call
    pre,                   \* the list and the log as they were when the call locked fsLock
    faults                 \* failures of the file system and of gob so far

sblVars == <<DataRedirects, DeleteChunks, ChunkRanges, Lookup, FullHashRequested, FullHashes>>
tmpVars == <<tmpLookup, tmpFullHashes, tmpFullHashRequested>>
fsVars == <<logFile, tmpFile>>
vars == <<DataRedirects, DeleteChunks, ChunkRanges, Lookup, FullHashRequested, FullHashes,
          tmpLookup, tmpFullHashes, tmpFullHashRequested, fsLock,
          logFile, tmpFile, pc, frame, pre, faults>>

NoFile == [exists |-> FALSE, recs |-> <<>>]
FileOf(recs) == [exists |-> TRUE, recs |-> recs]

\* The locals of a call that has not started.
IdleFrame ==
    [ url |-> 0,                               \* DataRedirects ranged over
      lenNewChunks |-> 0,                      \* len(newChunks)
      f |-> [nil |-> TRUE, recs |-> <<>>],   \* *os.File of the existing log
      decPos |-> 0,                            \* records dec has decoded
      fOut |-> FALSE,                          \* fOut != nil
      addChunkIndexes |-> {},
      subChunkIndexes |-> {},
      addedChunkCount |-> 0,
      deletedChunkCount |-> 0,
      chunk |-> NoChunk,
      loop |-> "none",                         \* the loop that called updateLookupMap
      k |-> 0,                                 \* delta records ranged over
      i |-> 0,                                 \* updateLookupMap's i
      err |-> "nil" ]

\* The list and the log at the start of a call, and the deletion
\* instructions registered during the call after it had tested a record.
Snapshot ==
    [ Lookup |-> Lookup, FullHashes |-> FullHashes,
      FullHashRequested |-> FullHashRequested,
      ChunkRanges |-> ChunkRanges, DeleteChunks |-> DeleteChunks,
      DataRedirects |-> DataRedirects, logFile |-> logFile,
      late |-> {} ]

NoSnapshot ==
    [ Lookup |-> {}, FullHashes |-> {}, FullHashRequested |-> {},
      ChunkRanges |-> <<>>, DeleteChunks |-> <<>>,
      DataRedirects |-> <<>>, logFile |-> NoFile,
      late |-> {} ]

\* newSafeBrowsingList; the file at FileName is whatever an earlier run, or
\* anything else, left there.
Init ==
    /\ DataRedirects = <<>>
    /\ DeleteChunks = [t \in {CHUNK_TYPE_ADD, CHUNK_TYPE_SUB} |-> {}]
    /\ ChunkRanges = <<>>
    /\ Lookup = NewTrie
    /\ FullHashRequested = NewTrie
    /\ FullHashes = NewTrie
    /\ tmpLookup = {}
    /\ tmpFullHashes = {}
    /\ tmpFullHashRequested = {}
    /\ fsLock = FALSE
    /\ logFile \in {NoFile} \cup { FileOf(s) : s \in ChunkSeqs(MaxLog) }
    /\ tmpFile = NoFile
    /\ pc = [p \in Procs |-> "idle"]
    /\ frame = [p \in Procs |-> IdleFrame]
    /\ pre = [p \in Procs |-> NoSnapshot]
    /\ faults = 0

Set(p, fr) == frame' = [frame EXCEPT ![p] = fr]
Goto(p, label) == pc' = [pc EXCEPT ![p] = label]

\* A call of the file system or of gob fails / does not fail.
Fails == faults < MaxFaults /\ faults' = faults + 1
Works == faults' = faults


(***************************************************************************)
(* Helpers of load and updateLookupMap.                                    *)
(***************************************************************************)
\* Faulty variant: Lock that does not wait for the mutex.
CanLock_NoWait(m) == TRUE

\* sync.Mutex.Lock returns only when the mutex is unlocked.
CanLock(m) == ~m

\* Faulty variant: the deletion instructions of ADD are consulted for every chunk.
IsDeleteChunk_AddMapOnly(dc, chunk) ==
    /\ CHUNK_TYPE_ADD \in DOMAIN dc
    /\ chunk.chunkNumber \in dc[CHUNK_TYPE_ADD]

\* _, exists := sbl.DeleteChunks[chunk.GetChunkType()][cast]
IsDeleteChunk(dc, chunk) ==
    /\ chunk.chunkType \in DOMAIN dc
    /\ chunk.chunkNumber \in dc[chunk.chunkType]

\* The else-if chain on (chunk type, prefix type) of both loops.
Bucket(chunk) ==
    IF chunk.chunkType = CHUNK_TYPE_ADD /\ chunk.prefixType = PREFIX_4B THEN "addPrefix"
    ELSE IF chunk.chunkType = CHUNK_TYPE_ADD /\ chunk.prefixType = PREFIX_32B THEN "addFullHash"
    ELSE IF chunk.chunkType = CHUNK_TYPE_SUB /\ chunk.prefixType = PREFIX_4B THEN "subPrefix"
    ELSE IF chunk.chunkType = CHUNK_TYPE_SUB /\ chunk.prefixType = PREFIX_32B THEN "subFullHash"
    ELSE "unknown"

\* Faulty variant: the ADD/32B branch does not record the chunk number.
AddIndexed_PrefixOnly(idx, chunk) ==
    IF Bucket(chunk) = "addPrefix" THEN idx \cup {chunk.chunkNumber} ELSE idx

\* addChunkIndexes[cast] = true in the two ADD branches.
AddIndexed(idx, chunk) ==
    IF Bucket(chunk) \in {"addPrefix", "addFullHash"} THEN idx \cup {chunk.chunkNumber} ELSE idx

\* subChunkIndexes[cast] = true in the two SUB branches.
SubIndexed(idx, chunk) ==
    IF Bucket(chunk) \in {"subPrefix", "subFullHash"} THEN idx \cup {chunk.chunkNumber} ELSE idx

\* The delta loop's else branch: addedChunkCount--; continue.
DeltaSkipsUnknown(chunk) == Bucket(chunk) = "unknown"

\* updateLookupMap's hashlen.
Hashlen(chunk) ==
    IF chunk.prefixType = PREFIX_32B THEN PREFIX_32B_SZ
    ELSE IF chunk.prefixType = PREFIX_4B THEN PREFIX_4B_SZ
    ELSE 0

\* Faulty variant: a SUB of a full hash does not mark the hash as requested.
ApplyHash_NoRequested(t, chunk, hashlen, hash) ==
    IF hashlen = PREFIX_4B_SZ THEN
        IF chunk.chunkType = CHUNK_TYPE_ADD
            THEN [t EXCEPT !.Lookup = TrieSet(@, hash)]
        ELSE IF chunk.chunkType = CHUNK_TYPE_SUB
            THEN [t EXCEPT !.Lookup = TrieDelete(@, hash)]
        ELSE t
    ELSE IF hashlen = PREFIX_32B_SZ THEN
        IF chunk.chunkType = CHUNK_TYPE_ADD
            THEN [t EXCEPT !.FullHashes = TrieSet(@, hash)]
        ELSE IF chunk.chunkType = CHUNK_TYPE_SUB
            THEN [t EXCEPT !.FullHashes = TrieDelete(@, hash)]
        ELSE t
    ELSE t

\* Faulty variant: a SUB of a prefix leaves the prefix in the trie.
ApplyHash_SubPrefixKept(t, chunk, hashlen, hash) ==
    IF hashlen = PREFIX_4B_SZ THEN
        IF chunk.chunkType = CHUNK_TYPE_ADD
            THEN [t EXCEPT !.Lookup = TrieSet(@, hash)]
        ELSE t
    ELSE IF hashlen = PREFIX_32B_SZ THEN
        IF chunk.chunkType = CHUNK_TYPE_ADD
            THEN [t EXCEPT !.FullHashes = TrieSet(@, hash)]
        ELSE IF chunk.chunkType = CHUNK_TYPE_SUB
            THEN [t EXCEPT !.FullHashes = TrieDelete(@, hash),
                           !.FullHashRequested = TrieSet(@, hash)]
        ELSE t
    ELSE t

\* Faulty variant: a SUB of a full hash marks it as requested and leaves it
\* in the full hashes.
ApplyHash_SubFullHashKept(t, chunk, hashlen, hash) ==
    IF hashlen = PREFIX_4B_SZ THEN
        IF chunk.chunkType = CHUNK_TYPE_ADD
            THEN [t EXCEPT !.Lookup = TrieSet(@, hash)]
        ELSE IF chunk.chunkType = CHUNK_TYPE_SUB
            THEN [t EXCEPT !.Lookup = TrieDelete(@, hash)]
        ELSE t
    ELSE IF hashlen = PREFIX_32B_SZ THEN
        IF chunk.chunkType = CHUNK_TYPE_ADD
            THEN [t EXCEPT !.FullHashes = TrieSet(@, hash)]
        ELSE IF chunk.chunkType = CHUNK_TYPE_SUB
            THEN [t EXCEPT !.FullHashRequested = TrieSet(@, hash)]
        ELSE t
    ELSE t

\* The body of updateLookupMap's loop for one hash, on the three temporary tries.
ApplyHash(t, chunk, hashlen, hash) ==
    IF hashlen = PREFIX_4B_SZ THEN
        IF chunk.chunkType = CHUNK_TYPE_ADD
            THEN [t EXCEPT !.Lookup = TrieSet(@, hash)]
        ELSE IF chunk.chunkType = CHUNK_TYPE_SUB
            THEN [t EXCEPT !.Lookup = TrieDelete(@, hash)]
        ELSE t
    ELSE IF hashlen = PREFIX_32B_SZ THEN
        IF chunk.chunkType = CHUNK_TYPE_ADD
            THEN [t EXCEPT !.FullHashes = TrieSet(@, hash)]
        ELSE IF chunk.chunkType = CHUNK_TYPE_SUB
            THEN [t EXCEPT !.FullHashes = TrieDelete(@, hash),
                           !.FullHashRequested = TrieSet(@, hash)]
        ELSE t
    ELSE t

TmpTries ==
    [Lookup |-> tmpLookup, FullHashes |-> tmpFullHashes,
     FullHashRequested |-> tmpFullHashRequested]

\* Faulty variant: close_tmp_file that closes fOut and leaves the file.
close_tmp_file_NoRemove(fout, tmp) == tmp

\* The deferred close_tmp_file: fOut.Close(); os.Remove(fileName + ".tmp").
close_tmp_file(fout, tmp) == IF fout THEN NoFile ELSE tmp

\* Faulty variant: DeleteChunks is left as it is.
StaleDeleteChunks == DeleteChunks

\* sbl.DeleteChunks = make(map[ChunkData_ChunkType]map[ChunkNum]bool)
EmptyDeleteChunks == [t \in {} |-> {}]

\* The deletion instructions a DeleteChunks map holds.
Pending(dc) == UNION { { <<t, n>> : n \in dc[t] } : t \in DOMAIN dc }

(***************************************************************************)
(* load, one action per step of caller p.                                  *)
(***************************************************************************)
\* load is called with newChunks and locks fsLock (lines 121-126).  Only the
\* length of newChunks is drawn here; its chunks are drawn one by one as the
\* second loop ranges over them.  The callers are interchangeable (a call
\* leaves nothing behind in its frame), so they are numbered in the order in
\* which they are inside load: the call takes the first free number.
load_Lock(p) ==
    /\ pc[p] = "idle"
    /\ \A q \in Procs : q < p => pc[q] # "idle"
    /\ CanLock(fsLock)
    /\ \E n \in 0..MaxLog :
          /\ Len(logFile.recs) + n <= MaxLog
          /\ Set(p, [IdleFrame EXCEPT !.lenNewChunks = n])
    /\ fsLock' = TRUE
    /\ pre' = [pre EXCEPT ![p] = Snapshot]
    /\ Goto(p, "open")
    /\ UNCHANGED <<sblVars, tmpVars, fsVars, faults>>

\* f, err := os.Open(sbl.FileName) (lines 129-143).
load_Open(p) ==
    /\ pc[p] = "open"
    /\ \/ /\ logFile.exists                   \* opened
          /\ Works
          /\ Set(p, [frame[p] EXCEPT !.f = [nil |-> FALSE, recs |-> logFile.recs]])
       \/ /\ logFile.exists                   \* an error other than IsNotExist: warned, f = nil
          /\ Fails
          /\ UNCHANGED frame
       \/ /\ ~logFile.exists                  \* IsNotExist: f = nil
          /\ Works
          /\ UNCHANGED frame
    /\ Goto(p, "create")
    /\ UNCHANGED <<sblVars, tmpVars, fsVars, fsLock, pre>>

\* fOut, err := os.Create(sbl.FileName + ".tmp"), the counters, the index sets
\* and the three fresh tries (lines 146-182).
load_Create(p) ==
    /\ pc[p] = "create"
    /\ \/ /\ Fails                            \* os.Create fails
          /\ Set(p, [frame[p] EXCEPT !.err = "create"])
          /\ Goto(p, "defer")
          /\ UNCHANGED <<tmpVars, fsVars>>
       \/ /\ Works
          /\ tmpFile' = FileOf(<<>>)
          /\ Set(p, [frame[p] EXCEPT !.fOut = TRUE,
                                     !.addChunkIndexes = {},
                                     !.subChunkIndexes = {},
                                     !.addedChunkCount = 0,
                                     !.deletedChunkCount = 0])
          /\ tmpLookup' = NewTrie
          /\ tmpFullHashes' = NewTrie
          /\ tmpFullHashRequested' = NewTrie
          /\ Goto(p, IF frame[p].f.nil THEN "addUpdated" ELSE "existing")
          /\ UNCHANGED logFile
    /\ UNCHANGED <<sblVars, fsLock, pre>>

\* One iteration of the loop over the existing log, up to the call of
\* updateLookupMap (lines 184-216), or its end (lines 187-188, 220-222).
load_Existing(p) ==
    /\ pc[p] = "existing"
    /\ LET fr == frame[p] IN
       \/ /\ fr.decPos < Len(fr.f.recs)       \* dec.Decode gives the next chunk
          /\ LET chunk == fr.f.recs[fr.decPos + 1] IN
             IF IsDeleteChunk(DeleteChunks, chunk)
             THEN /\ Works
                  /\ Set(p, [fr EXCEPT !.decPos = @ + 1,
                                       !.deletedChunkCount = @ + 1])
                  /\ Goto(p, "existing")
                  /\ UNCHANGED tmpFile
             ELSE LET indexed == [fr EXCEPT !.decPos = @ + 1,
                                            !.addChunkIndexes = AddIndexed(@, chunk),
                                            !.subChunkIndexes = SubIndexed(@, chunk)]
                  IN \/ /\ Works
                        /\ tmpFile' = [tmpFile EXCEPT !.recs = Append(@, chunk)]
                        /\ Set(p, [indexed EXCEPT !.chunk = chunk, !.loop = "existing", !.i = 0])
                        /\ Goto(p, "updateLookupMap")
                     \/ /\ Fails                  \* enc.Encode fails
                        /\ Set(p, [indexed EXCEPT !.err = "encode"])
                        /\ Goto(p, "defer")
                        /\ UNCHANGED tmpFile
       \/ /\ fr.decPos = Len(fr.f.recs)       \* dec.Decode gives io.EOF
          /\ Works
          /\ Goto(p, "addUpdated")
          /\ UNCHANGED <<frame, tmpFile>>
       \/ /\ Fails                            \* dec.Decode fails
          /\ Set(p, [fr EXCEPT !.err = "decode"])
          /\ Goto(p, "defer")
          /\ UNCHANGED tmpFile
    /\ UNCHANGED <<sblVars, tmpVars, logFile, fsLock, pre>>

\* One iteration of updateLookupMap's loop, or its end and the return to the
\* calling loop (lines 317-357; line 218 after the call in the first loop).
load_updateLookupMap(p) ==
    /\ pc[p] = "updateLookupMap"
    /\ LET fr == frame[p]
           hashlen == Hashlen(fr.chunk)
           hasheslen == Len(fr.chunk.hashes)
       IN IF (fr.i + hashlen) <= hasheslen
          THEN LET hash == SubSeq(fr.chunk.hashes, fr.i + 1, fr.i + hashlen)
                   t == ApplyHash(TmpTries, fr.chunk, hashlen, hash)
               IN /\ tmpLookup' = t.Lookup
                  /\ tmpFullHashes' = t.FullHashes
                  /\ tmpFullHashRequested' = t.FullHashRequested
                  /\ Set(p, [fr EXCEPT !.i = @ + hashlen])
                  /\ UNCHANGED pc
          ELSE /\ Set(p, [fr EXCEPT !.chunk = NoChunk, !.loop = "none", !.i = 0,
                                    !.addedChunkCount =
                                        IF fr.loop = "existing" THEN @ + 1 ELSE @])
               /\ Goto(p, fr.loop)
               /\ UNCHANGED tmpVars
    /\ UNCHANGED <<sblVars, fsVars, fsLock, pre, faults>>

\* Between the loops: the counters start again (lines 224-243).
load_AddUpdated(p) ==
    /\ pc[p] = "addUpdated"
    /\ Set(p, [frame[p] EXCEPT !.deletedChunkCount = 0,
                               !.addedChunkCount = frame[p].lenNewChunks,
                               !.k = 0])
    /\ Goto(p, "delta")
    /\ UNCHANGED <<sblVars, tmpVars, fsVars, fsLock, pre, faults>>

\* One iteration of the loop over newChunks, up to the call of
\* updateLookupMap (lines 245-274), or its end.
load_Delta(p) ==
    /\ pc[p] = "delta"
    /\ LET fr == frame[p] IN
       IF fr.k < fr.lenNewChunks
       THEN \E chunk \in ChunkPool :
            IF IsDeleteChunk(DeleteChunks, chunk) \/ DeltaSkipsUnknown(chunk)
            THEN /\ Works
                 /\ Set(p, [fr EXCEPT !.k = @ + 1, !.addedChunkCount = @ - 1])
                 /\ Goto(p, "delta")
                 /\ UNCHANGED tmpFile
            ELSE LET indexed == [fr EXCEPT !.k = @ + 1,
                                           !.addChunkIndexes = AddIndexed(@, chunk),
                                           !.subChunkIndexes = SubIndexed(@, chunk)]
                 IN \/ /\ Works
                       /\ tmpFile' = [tmpFile EXCEPT !.recs = Append(@, chunk)]
                       /\ Set(p, [indexed EXCEPT !.chunk = chunk, !.loop = "delta", !.i = 0])
                       /\ Goto(p, "updateLookupMap")
                    \/ /\ Fails                   \* enc.Encode fails
                       /\ Set(p, [indexed EXCEPT !.err = "encode"])
                       /\ Goto(p, "defer")
                       /\ UNCHANGED tmpFile
       ELSE /\ Goto(p, "replaceLookup")
            /\ UNCHANGED <<frame, tmpFile, faults>>
    /\ UNCHANGED <<sblVars, tmpVars, logFile, fsLock, pre>>

\* sbl.Lookup = sbl.tmpLookup (line 281).
load_ReplaceLookup(p) ==
    /\ pc[p] = "replaceLookup"
    /\ Lookup' = tmpLookup
    /\ Goto(p, "replaceFullHashes")
    /\ UNCHANGED <<DataRedirects, DeleteChunks, ChunkRanges, FullHashRequested, FullHashes,
                   tmpVars, fsVars, fsLock, frame, pre, faults>>

\* sbl.FullHashes = sbl.tmpFullHashes (line 283).
load_ReplaceFullHashes(p) ==
    /\ pc[p] = "replaceFullHashes"
    /\ FullHashes' = tmpFullHashes
    /\ Goto(p, "replaceFullHashRequested")
    /\ UNCHANGED <<DataRedirects, DeleteChunks, ChunkRanges, Lookup, FullHashRequested,
                   tmpVars, fsVars, fsLock, frame, pre, faults>>

\* sbl.FullHashRequested = sbl.tmpFullHashRequested (line 284).
load_ReplaceFullHashRequested(p) ==
    /\ pc[p] = "replaceFullHashRequested"
    /\ FullHashRequested' = tmpFullHashRequested
    /\ Goto(p, "remove")
    /\ UNCHANGED <<DataRedirects, DeleteChunks, ChunkRanges, Lookup, FullHashes,
                   tmpVars, fsVars, fsLock, frame, pre, faults>>

\* if f != nil { err = os.Remove(sbl.FileName) ... } (lines 288-293).
load_Remove(p) ==
    /\ pc[p] = "remove"
    /\ \/ /\ frame[p].f.nil
          /\ Goto(p, "rename")
          /\ UNCHANGED <<frame, logFile, faults>>
       \/ /\ ~frame[p].f.nil
          /\ Works
          /\ logFile' = NoFile
          /\ Goto(p, "rename")
          /\ UNCHANGED frame
       \/ /\ ~frame[p].f.nil                  \* os.Remove fails
          /\ Fails
          /\ Set(p, [frame[p] EXCEPT !.err = "remove"])
          /\ Goto(p, "defer")
          /\ UNCHANGED logFile
    /\ UNCHANGED <<sblVars, tmpVars, tmpFile, fsLock, pre>>

\* err = os.Rename(sbl.FileName+".tmp", sbl.FileName) (lines 294-297).
load_Rename(p) ==
    /\ pc[p] = "rename"
    /\ \/ /\ tmpFile.exists
          /\ Works
          /\ logFile' = tmpFile
          /\ tmpFile' = NoFile
          /\ Goto(p, "chunkRanges")
          /\ UNCHANGED frame
       \/ /\ Fails                            \* os.Rename fails
          /\ Set(p, [frame[p] EXCEPT !.err = "rename"])
          /\ Goto(p, "defer")
          /\ UNCHANGED fsVars
    /\ UNCHANGED <<sblVars, tmpVars, fsLock, pre>>

\* sbl.ChunkRanges = ... (lines 299-302).
load_ChunkRanges(p) ==
    /\ pc[p] = "chunkRanges"
    /\ ChunkRanges' = [t \in {CHUNK_TYPE_ADD, CHUNK_TYPE_SUB} |->
                          IF t = CHUNK_TYPE_ADD
                          THEN buildChunkRanges(frame[p].addChunkIndexes)
                          ELSE buildChunkRanges(frame[p].subChunkIndexes)]
    /\ Goto(p, "deleteChunks")
    /\ UNCHANGED <<DataRedirects, DeleteChunks, Lookup, FullHashRequested, FullHashes,
                   tmpVars, fsVars, fsLock, frame, pre, faults>>

\* sbl.DeleteChunks = make(...) and return nil (lines 303-314).
load_DeleteChunks(p) ==
    /\ pc[p] = "deleteChunks"
    /\ DeleteChunks' = EmptyDeleteChunks
    /\ Goto(p, "defer")
    /\ UNCHANGED <<DataRedirects, ChunkRanges, Lookup, FullHashRequested, FullHashes,
                   tmpVars, fsVars, fsLock, frame, pre, faults>>

\* The deferred close_tmp_file and close_file, run at every return
\* (lines 133-138, 150-156).
load_Defer(p) ==
    /\ pc[p] = "defer"
    /\ tmpFile' = close_tmp_file(frame[p].fOut, tmpFile)
    /\ Set(p, [frame[p] EXCEPT !.f = [nil |-> TRUE, recs |-> <<>>], !.fOut = FALSE])
    /\ Goto(p, "unlock")
    /\ UNCHANGED <<sblVars, tmpVars, logFile, fsLock, pre, faults>>

\* The deferred sbl.fsLock.Unlock() (line 126); load has returned frame[p].err.
load_Unlock(p) ==
    /\ pc[p] = "unlock"
    /\ fsLock' = FALSE
    /\ Set(p, IdleFrame)
    /\ pre' = [pre EXCEPT ![p] = NoSnapshot]
    /\ Goto(p, "idle")
    /\ UNCHANGED <<sblVars, tmpVars, fsVars, faults>>

load(p) ==
    \/ load_Lock(p)
    \/ load_Open(p)
    \/ load_Create(p)
    \/ load_Existing(p)
    \/ load_updateLookupMap(p)
    \/ load_AddUpdated(p)
    \/ load_Delta(p)
    \/ load_ReplaceLookup(p)
    \/ load_ReplaceFullHashes(p)
    \/ load_ReplaceFullHashRequested(p)
    \/ load_Remove(p)
    \/ load_Rename(p)
    \/ load_ChunkRanges(p)
    \/ load_DeleteChunks(p)
    \/ load_Defer(p)
    \/ load_Unlock(p)

(***************************************************************************)
(* A deletion instruction of the distributor is registered in DeleteChunks *)
(* between two loads.                                                      *)
(***************************************************************************)
RequestDeletion(t, n) ==
    /\ \A p \in Procs : pc[p] = "idle"
    /\ <<t, n>> \notin Pending(DeleteChunks)
    /\ Cardinality(Pending(DeleteChunks)) < MaxDeletes
    /\ DeleteChunks' = [u \in DOMAIN DeleteChunks \cup {t} |->
                           IF u = t
                           THEN (IF t \in DOMAIN DeleteChunks THEN DeleteChunks[t] ELSE {}) \cup {n}
                           ELSE DeleteChunks[u]]
    /\ UNCHANGED <<DataRedirects, ChunkRanges, Lookup, FullHashRequested, FullHashes,
                   tmpVars, fsVars, fsLock, pc, frame, pre, faults>>

Next ==
    \/ \E p \in Procs : load(p)
    \/ \E t \in {CHUNK_TYPE_ADD, CHUNK_TYPE_SUB}, n \in ChunkNums : RequestDeletion(t, n)

Spec == Init /\ [][Next]_vars


\* The steps of a call of load that has locked fsLock.
Running(p) ==
    \/ load_Open(p)
    \/ load_Create(p)
    \/ load_Existing(p)
    \/ load_updateLookupMap(p)
    \/ load_AddUpdated(p)
    \/ load_Delta(p)
    \/ load_ReplaceLookup(p)
    \/ load_ReplaceFullHashes(p)
    \/ load_ReplaceFullHashRequested(p)
    \/ load_Remove(p)
    \/ load_Rename(p)
    \/ load_ChunkRanges(p)
    \/ load_DeleteChunks(p)
    \/ load_Defer(p)
    \/ load_Unlock(p)

\* The goroutine that runs load is scheduled as long as it can take a step.
FairSpec == Spec /\ \A p \in Procs : WF_vars(Running(p))

(***************************************************************************)
(* A deletion instruction is registered in DeleteChunks while a load is    *)
(* between two of its steps: DeleteChunks is an exported field that load   *)
(* reads and replaces with fsLock held, and nothing makes its writers take *)
(* that lock.  The instruction is written down as late for the load in     *)
(* progress when that load has already tested a record (decPos records of  *)
(* the existing log, k of the delta) against DeleteChunks.                 *)
(***************************************************************************)
RequestDeletionDuringLoad(t, n) ==
    /\ \E p \in Procs : pc[p] # "idle"
    /\ <<t, n>> \notin Pending(DeleteChunks)
    /\ Cardinality(Pending(DeleteChunks)) < MaxDeletes
    /\ DeleteChunks' = [u \in DOMAIN DeleteChunks \cup {t} |->
                           IF u = t
                           THEN (IF t \in DOMAIN DeleteChunks THEN DeleteChunks[t] ELSE {}) \cup {n}
                           ELSE DeleteChunks[u]]
    /\ pre' = [p \in Procs |->
                  IF pc[p] # "idle" /\ frame[p].decPos + frame[p].k > 0
                  THEN [pre[p] EXCEPT !.late = @ \cup {<<t, n>>}]
                  ELSE pre[p]]
    /\ UNCHANGED <<DataRedirects, ChunkRanges, Lookup, FullHashRequested, FullHashes,
                   tmpVars, fsVars, fsLock, pc, frame, faults>>

RaceNext ==
    \/ \E p \in Procs : load(p)
    \/ \E t \in {CHUNK_TYPE_ADD, CHUNK_TYPE_SUB}, n \in ChunkNums : RequestDeletion(t, n)
    \/ \E t \in {CHUNK_TYPE_ADD, CHUNK_TYPE_SUB}, n \in ChunkNums : RequestDeletionDuringLoad(t, n)

\* The list with deletion instructions registered at any time.
RaceSpec == Init /\ [][RaceNext]_vars

(***************************************************************************)
(* loadDataFromRedirectLists, one action per step of caller p.  The        *)
(* update cycle that calls it runs one attempt on the list at a time and   *)
(* registers the redirect URLs between attempts.                           *)
(* A fetched body is the number of chunks ReadChunk decodes from it; the   *)
(* chunks themselves are drawn as load ranges over them.                   *)
(***************************************************************************)
\* Faulty variant: the error is noted and the loop goes on to the next URL.
FetchFailed_Continue(p, e) ==
    /\ Set(p, [frame[p] EXCEPT !.err = e, !.url = @ + 1])
    /\ UNCHANGED pc

\* return err / return fmt.Errorf(...) inside the loop (lines 96, 100, 109).
FetchFailed(p, e) ==
    /\ Set(p, [frame[p] EXCEPT !.err = e])
    /\ Goto(p, "returned")

\* The call and the test of len(sbl.DataRedirects) (lines 83-91).  No other
\* attempt is under way, so the caller takes the first number.
loadDataFromRedirectLists_Begin(p) ==
    /\ \A q \in Procs : pc[q] = "idle"
    /\ p = 1
    /\ Set(p, IdleFrame)
    /\ pre' = [pre EXCEPT ![p] = Snapshot]
    /\ Goto(p, IF Len(DataRedirects) < 1 THEN "returned" ELSE "fetch")
    /\ UNCHANGED <<sblVars, tmpVars, fsVars, fsLock, faults>>

\* One iteration of the loop over DataRedirects (lines 93-114), or its end.
loadDataFromRedirectLists_Fetch(p) ==
    /\ pc[p] = "fetch"
    /\ IF frame[p].url < Len(DataRedirects)
       THEN \/ FetchFailed(p, "request")          \* request fails
            \/ FetchFailed(p, "status")           \* StatusCode != 200
            \/ FetchFailed(p, "readChunk")        \* ReadChunk fails
            \/ \E m \in 0..MaxLog :               \* m chunks are read
                  /\ Len(logFile.recs) + frame[p].lenNewChunks + m <= MaxLog
                  /\ Set(p, [frame[p] EXCEPT !.url = @ + 1,
                                             !.lenNewChunks = @ + m])
                  /\ UNCHANGED pc
       ELSE /\ Goto(p, "check")
            /\ UNCHANGED frame
    /\ UNCHANGED <<sblVars, tmpVars, fsVars, fsLock, pre, faults>>

\* if newChunks[0] == nil (line 115): the index expression panics on an
\* empty newChunks; a chunk that ReadChunk returned is not nil.
loadDataFromRedirectLists_Check(p) ==
    /\ pc[p] = "check"
    /\ Goto(p, IF frame[p].lenNewChunks = 0 THEN "panic" ELSE "call")
    /\ UNCHANGED <<sblVars, tmpVars, fsVars, fsLock, frame, pre, faults>>

\* return sbl.load(newChunks) (line 118): load locks fsLock (lines 121-126).
loadDataFromRedirectLists_load(p) ==
    /\ pc[p] = "call"
    /\ CanLock(fsLock)
    /\ fsLock' = TRUE
    /\ pre' = [pre EXCEPT ![p] = Snapshot]
    /\ Goto(p, "open")
    /\ UNCHANGED <<sblVars, tmpVars, fsVars, frame, faults>>

\* loadDataFromRedirectLists has returned frame[p].err without calling load.
loadDataFromRedirectLists_Return(p) ==
    /\ pc[p] = "returned"
    /\ Set(p, IdleFrame)
    /\ pre' = [pre EXCEPT ![p] = NoSnapshot]
    /\ Goto(p, "idle")
    /\ UNCHANGED <<sblVars, tmpVars, fsVars, fsLock, faults>>

loadDataFromRedirectLists(p) ==
    \/ loadDataFromRedirectLists_Begin(p)
    \/ loadDataFromRedirectLists_Fetch(p)
    \/ loadDataFromRedirectLists_Check(p)
    \/ loadDataFromRedirectLists_load(p)
    \/ loadDataFromRedirectLists_Return(p)

\* The update response names one more redirect URL of the list.
AddDataRedirect ==
    /\ \A p \in Procs : pc[p] = "idle"
    /\ Len(DataRedirects) < MaxRedirects
    /\ DataRedirects' = Append(DataRedirects, "url" \o ToString(Len(DataRedirects) + 1))
    /\ UNCHANGED <<DeleteChunks, ChunkRanges, Lookup, FullHashRequested, FullHashes,
                   tmpVars, fsVars, fsLock, pc, frame, pre, faults>>

RedirectNext ==
    \/ \E p \in Procs : loadDataFromRedirectLists(p)
    \/ \E p \in Procs : Running(p)
    \/ AddDataRedirect

\* The list driven through loadDataFromRedirectLists, with no deletion
\* instruction registered.
RedirectSpec == Init /\ [][RedirectNext]_vars

(***************************************************************************)
(* Vocabulary of the properties.                                           *)
(***************************************************************************)
\* load of caller p has run to its return (only the unlock is left) with err.
Returning(p) == pc[p] = "unlock"
Succeeded(p) == Returning(p) /\ frame[p].err = "nil"
Failed(p) == Returning(p) /\ frame[p].err # "nil"

\* Caller p is past the rename of the temporary log.
Renamed(p) ==
    \/ pc[p] \in {"chunkRanges", "deleteChunks"}
    \/ pc[p] \in {"defer", "unlock"} /\ frame[p].err = "nil"

\* Caller p is past its two loops.
Merged(p) ==
    \/ pc[p] \in {"replaceLookup", "replaceFullHashes", "replaceFullHashRequested",
                  "remove", "rename", "chunkRanges", "deleteChunks"}
    \/ pc[p] \in {"defer", "unlock"} /\ frame[p].err \in {"nil", "remove", "rename"}

Live == <<Lookup, FullHashes, FullHashRequested>>
LiveBefore(p) == <<pre[p].Lookup, pre[p].FullHashes, pre[p].FullHashRequested>>
Fresh == <<tmpLookup, tmpFullHashes, tmpFullHashRequested>>

\* chunk's (type, number) is a deletion instruction of dc.
Instructed(dc, chunk) == <<chunk.chunkType, chunk.chunkNumber>> \in Pending(dc)

\* The chunk numbers of type t among the records recs.
NumbersOf(recs, t) ==
    { recs[j].chunkNumber : j \in { x \in 1..Len(recs) : recs[x].chunkType = t } }

Recognized(chunk) ==
    /\ chunk.chunkType \in {CHUNK_TYPE_ADD, CHUNK_TYPE_SUB}
    /\ chunk.prefixType \in {PREFIX_4B, PREFIX_32B}

\* The entries of w bytes that a blob of hashes splits into.
EntriesOf(hashes, w) ==
    { SubSeq(hashes, (e - 1) * w + 1, e * w) : e \in 1..(Len(hashes) \div w) }

\* The entries of the records of a recognized bucket.
Entries(chunk) ==
    IF chunk.prefixType = PREFIX_4B THEN EntriesOf(chunk.hashes, PREFIX_4B_SZ)
    ELSE IF chunk.prefixType = PREFIX_32B THEN EntriesOf(chunk.hashes, PREFIX_32B_SZ)
    ELSE {}

\* Record j of recs is of bucket b and holds the entry h.
Touches(recs, j, b, h) == Bucket(recs[j]) = b /\ h \in Entries(recs[j])

(***************************************************************************)
(* C1.  A load that fails while streaming records (a Decode error on the   *)
(* existing log, an Encode error on the temporary log) returns with the    *)
(* log at FileName and the three live containers as they were before the   *)
(* call, and with no file at FileName.tmp.                                 *)
(***************************************************************************)
C1_StreamFailureIsAtomic ==
    \A p \in Procs :
        (pc[p] \in {"defer", "unlock"} /\ frame[p].err \in {"decode", "encode"}) =>
            /\ logFile = pre[p].logFile
            /\ Live = LiveBefore(p)
            /\ Returning(p) => ~tmpFile.exists

\* A load fails on the second of two records of the existing log, on a list
\* whose live Lookup is not empty, after it has put keys in the fresh Lookup.
C1_Witness ==
    \E p \in Procs :
        /\ Failed(p)
        /\ frame[p].err \in {"decode", "encode"}
        /\ Len(pre[p].logFile.recs) = 2
        /\ frame[p].decPos >= 1
        /\ frame[p].addedChunkCount >= 1
        /\ pre[p].Lookup # {}
        /\ tmpLookup # {}

(***************************************************************************)
(* C2.  Every load that returns an error leaves Lookup, FullHashes,        *)
(* FullHashRequested and ChunkRanges as they were before the call.         *)
(***************************************************************************)
C2_FailedLoadChangesNothing ==
    \A p \in Procs :
        Failed(p) =>
            /\ Live = LiveBefore(p)
            /\ ChunkRanges = pre[p].ChunkRanges

(***************************************************************************)
(* C3.  At every point of a load the file at FileName is the complete log  *)
(* of before the call or the complete new log.                             *)
(***************************************************************************)
C3_LogIsOldOrNew ==
    \A p \in Procs :
        pc[p] # "idle" =>
            \/ logFile = pre[p].logFile
            \/ Renamed(p) /\ logFile.exists

(***************************************************************************)
(* C4.  At every instant of a load the three live containers are the three *)
(* containers of before the call or the three fully merged containers.     *)
(***************************************************************************)
C4_LiveIsOldOrMerged ==
    \A p \in Procs :
        pc[p] # "idle" =>
            \/ Live = LiveBefore(p)
            \/ Merged(p) /\ Live = Fresh

(***************************************************************************)
(* C5.  After a successful load, ChunkRanges[T], for T in {ADD, SUB}, is   *)
(* the range encoding of the set of the chunk numbers of the records of    *)
(* type T in the persisted log.                                            *)
(***************************************************************************)
C5_ChunkRangesMatchLog ==
    \A p \in Procs :
        Succeeded(p) =>
            /\ logFile.exists
            /\ DOMAIN ChunkRanges = {CHUNK_TYPE_ADD, CHUNK_TYPE_SUB}
            /\ \A t \in {CHUNK_TYPE_ADD, CHUNK_TYPE_SUB} :
                  ChunkRanges[t] = buildChunkRanges(NumbersOf(logFile.recs, t))

\* A successful load leaves a log with an unrecognized record and with ADD
\* records of both prefix types.
C5_Witness ==
    \E p \in Procs :
        /\ Succeeded(p)
        /\ Len(logFile.recs) = MaxLog
        /\ \E j \in 1..Len(logFile.recs) : ~Recognized(logFile.recs[j])
        /\ \E j \in 1..Len(logFile.recs) :
              Bucket(logFile.recs[j]) = "addFullHash"
        /\ ChunkRanges[CHUNK_TYPE_ADD] # ""

(***************************************************************************)
(* C6.  A record whose (type, number) is in DeleteChunks when load runs is *)
(* not written to the new log, does not put its number in the kept index   *)
(* set of its type, and is not handed to updateLookupMap.                  *)
(***************************************************************************)
C6_DeletedChunksAreDropped ==
    \A p \in Procs :
        pc[p] # "idle" =>
            LET dc == pre[p].DeleteChunks
                newLog == IF Renamed(p) THEN logFile.recs ELSE tmpFile.recs
            IN  /\ \A j \in 1..Len(newLog) : ~Instructed(dc, newLog[j])
                /\ \A n \in frame[p].addChunkIndexes : <<CHUNK_TYPE_ADD, n>> \notin Pending(dc)
                /\ \A n \in frame[p].subChunkIndexes : <<CHUNK_TYPE_SUB, n>> \notin Pending(dc)
                /\ pc[p] = "updateLookupMap" => ~Instructed(dc, frame[p].chunk)

\* A successful load whose existing log held a record to delete and a
\* record to keep.
C6_Witness ==
    \E p \in Procs :
        /\ Succeeded(p)
        /\ \E j \in 1..Len(pre[p].logFile.recs) :
              Instructed(pre[p].DeleteChunks, pre[p].logFile.recs[j])
        /\ Len(logFile.recs) >= 1
        /\ Len(logFile.recs) < Len(pre[p].logFile.recs)

(***************************************************************************)
(* C7.  A record of an unrecognized (chunk type, prefix type) combination  *)
(* is skipped by both loops: it is not written to the new log, not handed  *)
(* to updateLookupMap and not counted as added.                            *)
(***************************************************************************)
C7_UnknownChunksAreSkipped ==
    \A p \in Procs :
        pc[p] # "idle" =>
            /\ \A j \in 1..Len(tmpFile.recs) : Recognized(tmpFile.recs[j])
            /\ pc[p] = "updateLookupMap" => Recognized(frame[p].chunk)
            /\ pc[p] = "existing" =>
                  frame[p].addedChunkCount <=
                      Cardinality({ j \in 1..frame[p].decPos :
                                      Recognized(frame[p].f.recs[j]) })

(***************************************************************************)
(* C8.  A started load eventually returns and releases fsLock.             *)
(***************************************************************************)
C8_LoadReturns ==
    \A p \in Procs : (pc[p] # "idle") ~> (pc[p] = "idle" /\ ~fsLock)

(***************************************************************************)
(* C9.  fsLock is held from the start of load until it returns, and no two *)
(* executions of load overlap.                                             *)
(***************************************************************************)
C9_LoadsDoNotOverlap ==
    /\ \A p, q \in Procs : (pc[p] # "idle" /\ pc[q] # "idle") => p = q
    /\ fsLock <=> (\E p \in Procs : pc[p] # "idle")

\* One caller is in the middle of a merge, with the temporary log written,
\* on a list that an earlier load has merged; the other callers are out.
C9_Witness ==
    \E p \in Procs :
        /\ pc[p] = "updateLookupMap"
        /\ tmpFile.exists /\ Len(tmpFile.recs) >= 1
        /\ DOMAIN ChunkRanges # {}
        /\ \A q \in Procs \ {p} : pc[q] = "idle"

(***************************************************************************)
(* C10.  DeleteChunks is cleared only at the end of a successful load:     *)
(* until then, and when load returns an error, it holds the instructions   *)
(* it held before the call; after a successful load it holds none.         *)
(***************************************************************************)
C10_DeleteChunksClearedOnSuccessOnly ==
    \A p \in Procs :
        /\ (pc[p] # "idle" /\ ~(pc[p] \in {"defer", "unlock"} /\ frame[p].err = "nil"))
              => DeleteChunks = pre[p].DeleteChunks
        /\ Succeeded(p) => Pending(DeleteChunks) = {}

\* A successful load that had an instruction to consume.
C10_Witness ==
    \E p \in Procs :
        /\ Succeeded(p)
        /\ Pending(pre[p].DeleteChunks) # {}
        /\ Pending(DeleteChunks) = {}

(***************************************************************************)
(* C11 (as claimed).  After a successful load, every 32-byte value of a    *)
(* SUB/32B record that the load processed is in FullHashRequested and is   *)
(* not in FullHashes.  The records a successful load processed are the     *)
(* records of the new log, in order.                                       *)
(***************************************************************************)
C11_SubFullHashRetracts ==
    \A p \in Procs :
        Succeeded(p) =>
            \A j \in 1..Len(logFile.recs) :
                Bucket(logFile.recs[j]) = "subFullHash" =>
                    \A h \in Entries(logFile.recs[j]) :
                        h \notin FullHashes /\ h \in FullHashRequested

(***************************************************************************)
(* C11 (amended).  After a successful load, every 32-byte value h of a     *)
(* processed SUB/32B record is in FullHashRequested, and h is not in       *)
(* FullHashes unless an ADD/32B record holding h was processed after that  *)
(* SUB record.                                                             *)
(***************************************************************************)
C11_SubFullHashResolves ==
    \A p \in Procs :
        Succeeded(p) =>
            \A j \in 1..Len(logFile.recs) :
                Bucket(logFile.recs[j]) = "subFullHash" =>
                    \A h \in Entries(logFile.recs[j]) :
                        /\ h \in FullHashRequested
                        /\ (\A k \in (j + 1)..Len(logFile.recs) :
                               ~Touches(logFile.recs, k, "addFullHash", h))
                              => h \notin FullHashes

\* A successful load processed a SUB/32B record after an ADD/32B record of
\* the same hash, and a hash that was never in FullHashes is now requested.
C11_Witness ==
    \E p \in Procs :
        /\ Succeeded(p)
        /\ Len(logFile.recs) = 2
        /\ Bucket(logFile.recs[1]) = "addFullHash"
        /\ Bucket(logFile.recs[2]) = "subFullHash"
        /\ pre[p].FullHashes = {}
        /\ FullHashes = {}
        /\ FullHashRequested = Entries(logFile.recs[2])

(***************************************************************************)
(* C12.  After a successful load, the membership of a key in Lookup        *)
(* (4-byte keys) and in FullHashes (32-byte keys) is the effect of the     *)
(* last processed record that touches the key: the key is in the container *)
(* exactly when that record is an ADD.  The processed records are those of *)
(* the existing log in their order followed by those of the delta in       *)
(* theirs, which is the order of the new log.                              *)
(***************************************************************************)
C12_LaterRecordDecides ==
    \A p \in Procs :
        Succeeded(p) =>
            \A j \in 1..Len(logFile.recs) :
                \A h \in Entries(logFile.recs[j]) :
                    LET recs == logFile.recs
                        sameWidth(k) == recs[k].prefixType = recs[j].prefixType
                        isLast == \A k \in (j + 1)..Len(recs) :
                                     ~(Recognized(recs[k]) /\ sameWidth(k)
                                         /\ h \in Entries(recs[k]))
                    IN  (Recognized(recs[j]) /\ isLast) =>
                          /\ recs[j].prefixType = PREFIX_4B =>
                                (h \in Lookup <=> recs[j].chunkType = CHUNK_TYPE_ADD)
                          /\ recs[j].prefixType = PREFIX_32B =>
                                (h \in FullHashes <=> recs[j].chunkType = CHUNK_TYPE_ADD)

\* A successful load merged an ADD/4B record of the existing log with a later
\* SUB/4B record of the delta that takes one of its two prefixes out again.
C12_Witness ==
    \E p \in Procs :
        /\ Succeeded(p)
        /\ Len(pre[p].logFile.recs) = 1
        /\ frame[p].lenNewChunks = 1
        /\ Len(logFile.recs) = 2
        /\ Bucket(logFile.recs[1]) = "addPrefix"
        /\ Bucket(logFile.recs[2]) = "subPrefix"
        /\ Entries(logFile.recs[2]) \cap Lookup = {}
        /\ Entries(logFile.recs[1]) \cap Lookup # {}

(***************************************************************************)
(* The lookup-update rule for one record, on three containers, and the     *)
(* containers rebuilt from three empty ones by the first n records.        *)
(***************************************************************************)
LookupUpdateRule(t, chunk) ==
    CASE Bucket(chunk) = "addPrefix" ->
            [t EXCEPT !.Lookup = @ \cup Entries(chunk)]
      [] Bucket(chunk) = "subPrefix" ->
            [t EXCEPT !.Lookup = @ \ Entries(chunk)]
      [] Bucket(chunk) = "addFullHash" ->
            [t EXCEPT !.FullHashes = @ \cup Entries(chunk)]
      [] Bucket(chunk) = "subFullHash" ->
            [t EXCEPT !.FullHashes = @ \ Entries(chunk),
                      !.FullHashRequested = @ \cup Entries(chunk)]
      [] OTHER -> t

RECURSIVE Rebuilt(_, _)
Rebuilt(recs, n) ==
    IF n = 0
    THEN [Lookup |-> {}, FullHashes |-> {}, FullHashRequested |-> {}]
    ELSE LookupUpdateRule(Rebuilt(recs, n - 1), recs[n])

(***************************************************************************)
(* C17.  After every successful load the three live containers are those   *)
(* rebuilt from three empty containers by the records of the log at        *)
(* FileName, in order.                                                     *)
(***************************************************************************)
C17_LiveIsRebuiltFromLog ==
    \A p \in Procs :
        Succeeded(p) =>
            LET r == Rebuilt(logFile.recs, Len(logFile.recs))
            IN  /\ logFile.exists
                /\ Live = <<r.Lookup, r.FullHashes, r.FullHashRequested>>

\* A successful load deleted the SUB/32B chunk that had put a hash in
\* FullHashRequested, and kept another record: the hash is requested no more.
C17_Witness ==
    \E p \in Procs :
        /\ Succeeded(p)
        /\ pre[p].FullHashRequested # {}
        /\ \E j \in 1..Len(pre[p].logFile.recs) :
              /\ Bucket(pre[p].logFile.recs[j]) = "subFullHash"
              /\ Instructed(pre[p].DeleteChunks, pre[p].logFile.recs[j])
        /\ Len(logFile.recs) = 1
        /\ FullHashRequested = {}
        /\ Lookup # {}

\* The list of snapshot s is the outcome of a successful merge: the log is
\* there, no deletion is pending, the containers are those rebuilt from the
\* log and the chunk ranges are those of the log.
AlreadyMerged(s) ==
    LET r == Rebuilt(s.logFile.recs, Len(s.logFile.recs))
    IN  /\ s.logFile.exists
        /\ Pending(s.DeleteChunks) = {}
        /\ <<s.Lookup, s.FullHashes, s.FullHashRequested>> =
               <<r.Lookup, r.FullHashes, r.FullHashRequested>>
        /\ DOMAIN s.ChunkRanges = {CHUNK_TYPE_ADD, CHUNK_TYPE_SUB}
        /\ \A t \in {CHUNK_TYPE_ADD, CHUNK_TYPE_SUB} :
              s.ChunkRanges[t] = buildChunkRanges(NumbersOf(s.logFile.recs, t))

(***************************************************************************)
(* C13.  A load with an empty delta on a list that has been merged         *)
(* successfully and has no pending deletion returns with the membership of *)
(* the three containers, ChunkRanges and the sequence of records of the    *)
(* log as they were.                                                       *)
(***************************************************************************)
C13_EmptyDeltaChangesNothing ==
    \A p \in Procs :
        (Succeeded(p) /\ frame[p].lenNewChunks = 0 /\ AlreadyMerged(pre[p])) =>
            /\ Live = LiveBefore(p)
            /\ ChunkRanges = pre[p].ChunkRanges
            /\ logFile.exists
            /\ logFile.recs = pre[p].logFile.recs

(***************************************************************************)
(* C14.  A load with an empty delta, started when there is no file at      *)
(* FileName, returns with no file at FileName and with the three           *)
(* containers, ChunkRanges and DeleteChunks as they were.                  *)
(***************************************************************************)
C14_NothingToMergeIsNoOp ==
    \A p \in Procs :
        (Returning(p) /\ frame[p].lenNewChunks = 0 /\ ~pre[p].logFile.exists) =>
            /\ ~logFile.exists
            /\ Live = LiveBefore(p)
            /\ ChunkRanges = pre[p].ChunkRanges
            /\ DeleteChunks = pre[p].DeleteChunks

\* os.Open of caller p has failed on a file that is there: the call is past
\* line 129 with f = nil (the deferred close_file has not run yet).
OpenFailed(p) ==
    /\ pc[p] \notin {"idle", "open", "unlock"}
    /\ frame[p].f.nil
    /\ pre[p].logFile.exists

(***************************************************************************)
(* C15.  When the log at FileName exists and cannot be opened, load does   *)
(* not go on to a successful end and commits nothing: the file at FileName *)
(* and the three containers stay as they were.                             *)
(***************************************************************************)
C15_OpenErrorAborts ==
    \A p \in Procs :
        OpenFailed(p) =>
            /\ logFile = pre[p].logFile
            /\ Live = LiveBefore(p)
            /\ ~(pc[p] = "defer" /\ frame[p].err = "nil")

(***************************************************************************)
(* C19.  In every reachable state DeleteChunks has a set of chunk numbers  *)
(* for CHUNK_TYPE_ADD and for CHUNK_TYPE_SUB.                              *)
(***************************************************************************)
C19_DeleteChunksHasBothTypes ==
    /\ CHUNK_TYPE_ADD \in DOMAIN DeleteChunks
    /\ CHUNK_TYPE_SUB \in DOMAIN DeleteChunks

\* The errors of the loop over DataRedirects.
FetchErrors == {"request", "status", "readChunk"}

\* The list, the log and the temporary file are as they were when caller p
\* entered loadDataFromRedirectLists.
UntouchedSince(p) ==
    /\ logFile = pre[p].logFile
    /\ ~tmpFile.exists
    /\ Live = LiveBefore(p)
    /\ ChunkRanges = pre[p].ChunkRanges
    /\ DeleteChunks = pre[p].DeleteChunks
    /\ DataRedirects = pre[p].DataRedirects

C20_EmptyFetchReturnsError ==
    \A p \in Procs :
        (/\ pc[p] \notin {"idle", "fetch", "check"}
         /\ Len(DataRedirects) >= 1
         /\ frame[p].url = Len(DataRedirects)
         /\ frame[p].lenNewChunks = 0) =>
            /\ pc[p] = "returned"
            /\ frame[p].err = "nochunk"
            /\ UntouchedSince(p)

(***************************************************************************)
(* C18.  A deletion instruction registered while a load is in progress,    *)
(* after that load has tested a record against DeleteChunks, is still in   *)
(* DeleteChunks when the load returns: the load's final clear does not     *)
(* take it out.                                                            *)
(***************************************************************************)
C18_NoDeletionLost ==
    \A p \in Procs :
        pc[p] # "idle" => pre[p].late \subseteq Pending(DeleteChunks)

====
